---- MODULE Spec2Model ----
(***************************************************************************)
(* json-to-string: pkg/jsonstr (Encode, Decode) and the encoding/json      *)
(* routines they call (Go 1.24).  Texts are sequences of bytes (0..255),   *)
(* exactly as the []byte / string values of the program.                   *)
(***************************************************************************)
EXTENDS Integers, Sequences, FiniteSets, TLC

(***************************************************************************)
(* Bytes                                                                   *)
(***************************************************************************)
QUOTE == 34
BACKSLASH == 92
LF == 10
TAB == 9
CR == 13
SPACE == 32
COMMA == 44
COLON == 58
LBRACE == 123
RBRACE == 125
LBRACKET == 91
RBRACKET == 93
MINUS == 45
PLUS == 43
DOT == 46
ZERO == 48

\* first byte value that is not a one-byte rune (utf8.RuneSelf)
RuneSelf == 128
\* utf8.RuneError / unicode.ReplacementChar, U+FFFD
RuneError == 65533
\* unicode.MaxRune, U+10FFFF
MaxRune == 1114111

\* "true", "false", "null"
TrueText == <<116, 114, 117, 101>>
FalseText == <<102, 97, 108, 115, 101>>
NullText == <<110, 117, 108, 108>>
\* the six bytes backslash, u, f, f, f, d
ReplacementEscape == <<92, 117, 102, 102, 102, 100>>

IsSpace(c) == c \in {SPACE, TAB, CR, LF}
IsDigit(c) == c \in 48..57
IsHex(c) == IsDigit(c) \/ c \in 97..102 \/ c \in 65..70
HexVal(c) == IF IsDigit(c) THEN c - 48 ELSE IF c \in 97..102 THEN c - 87 ELSE c - 55
\* the table "0123456789abcdef" of encode.go
HexDigit(n) == IF n < 10 THEN 48 + n ELSE 87 + n

Min(a, b) == IF a < b THEN a ELSE b

\* s[from..] = t[1..] on the length of t
HasPrefixAt(s, from, t) ==
    /\ from + Len(t) - 1 <= Len(s)
    /\ \A k \in 1..Len(t) : s[from + k - 1] = t[k]

RECURSIVE BytesLess(_, _)
\* strings.Compare(a, b) < 0: bytewise lexicographic order
BytesLess(a, b) ==
    IF b = <<>> THEN FALSE
    ELSE IF a = <<>> THEN TRUE
    ELSE IF a[1] # b[1] THEN a[1] < b[1]
    ELSE BytesLess(Tail(a), Tail(b))

(***************************************************************************)
(* unicode/utf8 and unicode/utf16                                          *)
(***************************************************************************)
IsCont(s, i) == i <= Len(s) /\ s[i] \in 128..191

\* utf8.DecodeRune(s[i:]): the rune and the number of bytes it takes;
\* an invalid or short encoding yields (RuneError, 1)
DecodeRune(s, i) ==
    LET b0 == s[i]
        bad == [rune |-> RuneError, size |-> 1]
    IN  IF b0 < RuneSelf THEN [rune |-> b0, size |-> 1]
        ELSE IF b0 \in 194..223 THEN
            IF IsCont(s, i + 1)
            THEN [rune |-> (b0 - 192) * 64 + (s[i + 1] - 128), size |-> 2]
            ELSE bad
        ELSE IF b0 \in 224..239 THEN
            LET lo == IF b0 = 224 THEN 160 ELSE 128
                hi == IF b0 = 237 THEN 159 ELSE 191
            IN  IF i + 2 <= Len(s) /\ s[i + 1] \in lo..hi /\ IsCont(s, i + 2)
                THEN [rune |-> (b0 - 224) * 4096 + (s[i + 1] - 128) * 64 + (s[i + 2] - 128),
                      size |-> 3]
                ELSE bad
        ELSE IF b0 \in 240..244 THEN
            LET lo == IF b0 = 240 THEN 144 ELSE 128
                hi == IF b0 = 244 THEN 143 ELSE 191
            IN  IF i + 3 <= Len(s) /\ s[i + 1] \in lo..hi /\ IsCont(s, i + 2) /\ IsCont(s, i + 3)
                THEN [rune |-> (b0 - 240) * 262144 + (s[i + 1] - 128) * 4096
                               + (s[i + 2] - 128) * 64 + (s[i + 3] - 128),
                      size |-> 4]
                ELSE bad
        ELSE bad

\* utf16.IsSurrogate
IsSurrogate(r) == r \in 55296..57343

\* utf8.EncodeRune / utf8.AppendRune
EncodeRune(r) ==
    IF r >= 0 /\ r < 128 THEN <<r>>
    ELSE IF r >= 128 /\ r < 2048 THEN <<192 + (r \div 64), 128 + (r % 64)>>
    ELSE IF r < 0 \/ r > MaxRune \/ IsSurrogate(r) THEN <<239, 191, 189>>
    ELSE IF r < 65536
    THEN <<224 + (r \div 4096), 128 + ((r \div 64) % 64), 128 + (r % 64)>>
    ELSE <<240 + (r \div 262144), 128 + ((r \div 4096) % 64),
           128 + ((r \div 64) % 64), 128 + (r % 64)>>

\* utf16.DecodeRune(r1, r2)
DecodeSurrogates(r1, r2) ==
    IF r1 \in 55296..56319 /\ r2 \in 56320..57343
    THEN (r1 - 55296) * 1024 + (r2 - 56320) + 65536
    ELSE RuneError

(***************************************************************************)
(* JSON values, as json.Unmarshal stores them in an interface{}:           *)
(* nil, bool, float64, string, []interface{}, map[string]interface{}.      *)
(* A float64 is kept as its decimal value 0.d1..dn * 10^pt (digs has no    *)
(* leading or trailing zero; zero has no digits), which is exact for the   *)
(* number texts of up to 15 significant digits outside the subnormal       *)
(* range.  A map is kept as its members in ascending key order.            *)
(***************************************************************************)
Null == [t |-> "null"]
Bool(b) == [t |-> "bool", b |-> b]
Num(neg, digs, pt) == [t |-> "num", neg |-> neg, digs |-> digs, pt |-> pt]
Str(s) == [t |-> "str", s |-> s]
Arr(a) == [t |-> "arr", a |-> a]
Obj(m) == [t |-> "obj", m |-> m]
\* a float64 that is +Inf or -Inf: what strconv.ParseFloat returns, with a
\* range error, for a number too large for a float64
Inf(neg) == [t |-> "inf", neg |-> neg]

RECURSIVE MapPut(_, _, _)
\* m[k] = v on a map: a later member with the same key replaces the earlier
MapPut(m, k, v) ==
    IF m = <<>> THEN <<[k |-> k, v |-> v]>>
    ELSE IF m[1].k = k THEN <<[k |-> k, v |-> v]>> \o Tail(m)
    ELSE IF BytesLess(k, m[1].k) THEN <<[k |-> k, v |-> v]>> \o m
    ELSE <<m[1]>> \o MapPut(Tail(m), k, v)

(***************************************************************************)
(* encoding/json: the scanner and the decoder into an interface{}          *)
(* (json.Unmarshal checks the syntax of the whole text, then stores the    *)
(* value; a number that does not fit a float64 is an UnmarshalTypeError).  *)
(***************************************************************************)
RECURSIVE SkipSpace(_, _)
\* index of the first byte at or after i that is not a space, Len(s)+1 if none
SkipSpace(s, i) ==
    IF i <= Len(s) /\ IsSpace(s[i]) THEN SkipSpace(s, i + 1) ELSE i

RECURSIVE DigitsEnd(_, _)
\* index just past the run of digits that starts at i
DigitsEnd(s, i) ==
    IF i <= Len(s) /\ IsDigit(s[i]) THEN DigitsEnd(s, i + 1) ELSE i

\* the four hex digits at s[i..i+3] as a number, -1 if they are not there (getu4)
getu4(s, i) ==
    IF i + 3 <= Len(s) /\ \A k \in i..(i + 3) : IsHex(s[k])
    THEN HexVal(s[i]) * 4096 + HexVal(s[i + 1]) * 256 + HexVal(s[i + 2]) * 16 + HexVal(s[i + 3])
    ELSE -1

\* the byte an escape letter stands for: \" \\ \/ \b \f \n \r \t
EscapedByte(e) ==
    CASE e = QUOTE -> QUOTE
      [] e = BACKSLASH -> BACKSLASH
      [] e = 47 -> 47
      [] e = 98 -> 8
      [] e = 102 -> 12
      [] e = 110 -> LF
      [] e = 114 -> CR
      [] e = 116 -> TAB

\* One round of the loop over the bytes of a string literal, st.pos being
\* the next byte: stateInString/stateInStringEsc of the scanner reject a
\* control byte, an unknown escape and a literal that does not end;
\* unquoteBytes decodes the escapes and replaces invalid UTF-8.  The round
\* that meets the closing quote ends the loop (done) with pos just past it.
unquoteStep(s, st) ==
    LET i == st.pos
        fail == [ok |-> FALSE, done |-> TRUE, str |-> <<>>, pos |-> 0]
        more(str, pos) == [ok |-> TRUE, done |-> FALSE, str |-> str, pos |-> pos]
    IN  IF i > Len(s) THEN fail
        ELSE LET c == s[i] IN
            IF c = QUOTE THEN [ok |-> TRUE, done |-> TRUE, str |-> st.str, pos |-> i + 1]
            ELSE IF c < SPACE THEN fail
            ELSE IF c = BACKSLASH THEN
                IF i + 1 > Len(s) THEN fail
                ELSE LET e == s[i + 1] IN
                    IF e \in {QUOTE, BACKSLASH, 47, 98, 102, 110, 114, 116}
                    THEN more(Append(st.str, EscapedByte(e)), i + 2)
                    ELSE IF e = 117 THEN
                        LET rr == getu4(s, i + 2) IN
                        IF rr < 0 THEN fail
                        ELSE IF IsSurrogate(rr) THEN
                            LET rr1 == IF HasPrefixAt(s, i + 6, <<BACKSLASH, 117>>)
                                       THEN getu4(s, i + 8) ELSE -1
                                dec == DecodeSurrogates(rr, rr1)
                            IN  IF dec # RuneError
                                THEN more(st.str \o EncodeRune(dec), i + 12)
                                ELSE more(st.str \o EncodeRune(RuneError), i + 6)
                        ELSE more(st.str \o EncodeRune(rr), i + 6)
                    ELSE fail
            ELSE IF c < RuneSelf THEN more(Append(st.str, c), i + 1)
            ELSE LET d == DecodeRune(s, i) IN
                more(st.str \o EncodeRune(d.rune), i + d.size)

RECURSIVE Log2(_)
\* the least k with 2^k >= n
Log2(n) == IF n <= 1 THEN 0 ELSE 1 + Log2((n + 1) \div 2)

RECURSIVE unquoteLoop(_, _, _)
\* up to 2^k rounds of unquoteStep from the state st, stopping when done
unquoteLoop(s, st, k) ==
    IF st.done THEN st
    ELSE IF k = 0 THEN unquoteStep(s, st)
    ELSE unquoteLoop(s, unquoteLoop(s, st, k - 1), k - 1)

\* The string literal whose opening quote is at s[i-1]: whether it is one,
\* its unescaped bytes, and the index just past its closing quote.
unquoteBytes(s, i) ==
    LET end(st) == [ok |-> st.ok /\ st.done, str |-> st.str, pos |-> st.pos]
    IN  end(unquoteLoop(s, [ok |-> TRUE, done |-> FALSE, str |-> <<>>, pos |-> i],
                        Log2(Len(s) - i + 2)))

\* The number literal that starts at s[i] (state1, state0, stateDot, stateE
\* ... of the scanner): sign, integer digits, fraction digits, exponent.
ScanNumber(s, i) ==
    LET neg == s[i] = MINUS
        j == IF neg THEN i + 1 ELSE i
        bad == [ok |-> FALSE, pos |-> 0, neg |-> FALSE, ip |-> <<>>, fp |-> <<>>,
                 eneg |-> FALSE, ed |-> <<>>]
    IN  IF j > Len(s) \/ ~IsDigit(s[j]) THEN bad
        ELSE
            LET ie == IF s[j] = ZERO THEN j + 1 ELSE DigitsEnd(s, j)
                hasFrac == ie <= Len(s) /\ s[ie] = DOT
                fe == IF hasFrac THEN DigitsEnd(s, ie + 1) ELSE ie
                hasExp == fe <= Len(s) /\ s[fe] \in {101, 69}
                sgn == hasExp /\ fe + 1 <= Len(s) /\ s[fe + 1] \in {PLUS, MINUS}
                es == IF sgn THEN fe + 2 ELSE fe + 1
                ee == IF hasExp THEN DigitsEnd(s, es) ELSE fe
            IN  IF hasFrac /\ fe = ie + 1 THEN bad
                ELSE IF hasExp /\ ee = es THEN bad
                ELSE [ok |-> TRUE, pos |-> ee, neg |-> neg,
                      ip |-> SubSeq(s, j, ie - 1),
                      fp |-> IF hasFrac THEN SubSeq(s, ie + 1, fe - 1) ELSE <<>>,
                      eneg |-> sgn /\ s[fe + 1] = MINUS,
                      ed |-> IF hasExp THEN SubSeq(s, es, ee - 1) ELSE <<>>]

RECURSIVE Atoi(_, _)
\* the decimal digits ds as a number, saturating at 100000 (far outside the
\* float64 exponent range in either direction)
Atoi(ds, acc) ==
    IF ds = <<>> THEN acc
    ELSE Atoi(Tail(ds), Min(acc * 10 + (ds[1] - ZERO), 100000))

RECURSIVE LeadingZeros(_)
LeadingZeros(ds) ==
    IF ds # <<>> /\ ds[1] = ZERO THEN 1 + LeadingZeros(Tail(ds)) ELSE 0

RECURSIVE StripTrailingZeros(_)
StripTrailingZeros(ds) ==
    IF ds # <<>> /\ ds[Len(ds)] = ZERO
    THEN StripTrailingZeros(SubSeq(ds, 1, Len(ds) - 1))
    ELSE ds

\* The leading digits of 2^1024 - 2^970 = 1.7976931348623158...e308, the least
\* decimal that strconv.ParseFloat rounds to +Inf (math.MaxFloat64 is
\* 1.7976931348623157e308).
MaxFloat64Digits == <<49, 55, 57, 55, 54, 57, 51, 49, 51, 52, 56, 54, 50, 51, 49, 53, 56>>

\* convertNumber without the check of the error of strconv.ParseFloat: the
\* infinity it returned is stored
convertNumberUnchecked(n) ==
    LET all == n.ip \o n.fp
        lz == LeadingZeros(all)
        digs == StripTrailingZeros(SubSeq(all, lz + 1, Len(all)))
        ex == IF n.eneg THEN 0 - Atoi(n.ed, 0) ELSE Atoi(n.ed, 0)
        pt == Len(n.ip) - lz + ex
    IN  IF digs = <<>> THEN [ok |-> TRUE, val |-> Num(n.neg, <<>>, 0)]
        ELSE IF pt > 309 \/ (pt = 309 /\ BytesLess(MaxFloat64Digits, digs))
        THEN [ok |-> TRUE, val |-> Inf(n.neg)]
        ELSE IF pt <= -324 THEN [ok |-> TRUE, val |-> Num(n.neg, <<>>, 0)]
        ELSE [ok |-> TRUE, val |-> Num(n.neg, digs, pt)]

\* decodeState.convertNumber: strconv.ParseFloat(s, 64).  ok is FALSE when
\* ParseFloat reports a range error (the value rounds to an infinity); a
\* value below the least subnormal becomes zero without an error.
convertNumber(n) ==
    LET all == n.ip \o n.fp
        lz == LeadingZeros(all)
        digs == StripTrailingZeros(SubSeq(all, lz + 1, Len(all)))
        ex == IF n.eneg THEN 0 - Atoi(n.ed, 0) ELSE Atoi(n.ed, 0)
        pt == Len(n.ip) - lz + ex
    IN  IF digs = <<>> THEN [ok |-> TRUE, val |-> Num(n.neg, <<>>, 0)]
        ELSE IF pt > 309 \/ (pt = 309 /\ BytesLess(MaxFloat64Digits, digs))
        THEN [ok |-> FALSE, val |-> Null]
        ELSE IF pt <= -324 THEN [ok |-> TRUE, val |-> Num(n.neg, <<>>, 0)]
        ELSE [ok |-> TRUE, val |-> Num(n.neg, digs, pt)]

\* a value that does not scan
NoValue == [ok |-> FALSE, val |-> Null, pos |-> 0, rng |-> FALSE]
\* the value val, ending just before s[pos]; rng: some number of it did not
\* fit a float64 (decodeState.saveError keeps the error, decoding goes on)
Scanned(val, pos, rng) == [ok |-> TRUE, val |-> val, pos |-> pos, rng |-> rng]

RECURSIVE valueInterface(_, _)
RECURSIVE arrayInterface(_, _, _, _)
RECURSIVE objectInterface(_, _, _, _)

\* the JSON value whose first byte is s[i]
valueInterface(s, i) ==
    IF i > Len(s) THEN NoValue
    ELSE LET c == s[i] IN
        IF c = LBRACE THEN
            LET j == SkipSpace(s, i + 1) IN
            IF j <= Len(s) /\ s[j] = RBRACE
            THEN Scanned(Obj(<<>>), j + 1, FALSE)
            ELSE objectInterface(s, j, <<>>, FALSE)
        ELSE IF c = LBRACKET THEN
            LET j == SkipSpace(s, i + 1) IN
            IF j <= Len(s) /\ s[j] = RBRACKET
            THEN Scanned(Arr(<<>>), j + 1, FALSE)
            ELSE arrayInterface(s, j, <<>>, FALSE)
        ELSE IF c = QUOTE THEN
            LET string(r) == IF r.ok THEN Scanned(Str(r.str), r.pos, FALSE) ELSE NoValue
            IN  string(unquoteBytes(s, i + 1))
        ELSE IF HasPrefixAt(s, i, TrueText) THEN Scanned(Bool(TRUE), i + 4, FALSE)
        ELSE IF HasPrefixAt(s, i, FalseText) THEN Scanned(Bool(FALSE), i + 5, FALSE)
        ELSE IF HasPrefixAt(s, i, NullText) THEN Scanned(Null, i + 4, FALSE)
        ELSE IF c = MINUS \/ IsDigit(c) THEN
            LET float(f, pos) == Scanned(f.val, pos, ~f.ok)
                number(n) == IF ~n.ok THEN NoValue ELSE float(convertNumber(n), n.pos)
            IN  number(ScanNumber(s, i))
        ELSE NoValue

\* the elements of an array from the element whose first byte is s[i];
\* acc holds the elements before it
arrayInterface(s, i, acc, rng) ==
    LET next(j, acc2, rng2) ==
            IF j > Len(s) THEN NoValue
            ELSE IF s[j] = COMMA THEN arrayInterface(s, SkipSpace(s, j + 1), acc2, rng2)
            ELSE IF s[j] = RBRACKET THEN Scanned(Arr(acc2), j + 1, rng2)
            ELSE NoValue
        element(r) ==
            IF ~r.ok THEN NoValue
            ELSE next(SkipSpace(s, r.pos), Append(acc, r.val), rng \/ r.rng)
    IN  element(valueInterface(s, i))

\* the members of an object from the member whose key starts at s[i];
\* m holds the members before it
objectInterface(s, i, m, rng) ==
    IF i > Len(s) \/ s[i] # QUOTE THEN NoValue
    ELSE
        LET next(j, m2, rng2) ==
                IF j > Len(s) THEN NoValue
                ELSE IF s[j] = COMMA THEN objectInterface(s, SkipSpace(s, j + 1), m2, rng2)
                ELSE IF s[j] = RBRACE THEN Scanned(Obj(m2), j + 1, rng2)
                ELSE NoValue
            value(k, r) ==
                IF ~r.ok THEN NoValue
                ELSE next(SkipSpace(s, r.pos), MapPut(m, k.str, r.val), rng \/ r.rng)
            colon(k, c) ==
                IF c > Len(s) \/ s[c] # COLON THEN NoValue
                ELSE value(k, valueInterface(s, SkipSpace(s, c + 1)))
            key(k) == IF ~k.ok THEN NoValue ELSE colon(k, SkipSpace(s, k.pos))
        IN  key(unquoteBytes(s, i + 1))

\* json.Unmarshal(data, &v) with v an interface{}
Unmarshal(data) ==
    LET store(r) ==
            IF ~r.ok \/ SkipSpace(data, r.pos) <= Len(data)
            THEN [err |-> "SyntaxError", val |-> Null]
            ELSE IF r.rng THEN [err |-> "UnmarshalTypeError", val |-> Null]
            ELSE [err |-> "nil", val |-> r.val]
    IN  store(valueInterface(data, SkipSpace(data, 1)))

\* json.Unmarshal(data, &v) with v a string
UnmarshalString(data) ==
    LET store(r) ==
            IF ~r.ok \/ SkipSpace(data, r.pos) <= Len(data)
            THEN [err |-> "SyntaxError", str |-> <<>>]
            ELSE IF r.val.t = "null" THEN [err |-> "nil", str |-> <<>>]
            ELSE IF r.val.t # "str" THEN [err |-> "UnmarshalTypeError", str |-> <<>>]
            ELSE [err |-> "nil", str |-> r.val.s]
    IN  store(valueInterface(data, SkipSpace(data, 1)))

(***************************************************************************)
(* encoding/json: the encoder                                              *)
(***************************************************************************)
\* htmlSafeSet[b] of encoding/json/tables.go, for b < utf8.RuneSelf
htmlSafeSet(b) == b >= SPACE /\ b \notin {QUOTE, BACKSLASH, 38, 60, 62}

\* One round of the loop of appendString(dst, src, escapeHTML = true): the
\* byte or rune at src[st.pos] is appended to st.dst, escaped if need be.
appendStep(src, st) ==
    LET i == st.pos
        b == src[i]
        more(bytes, pos) == [dst |-> st.dst \o bytes, pos |-> pos]
    IN  IF i > Len(src) THEN st
        ELSE IF b < RuneSelf THEN
            IF htmlSafeSet(b) THEN more(<<b>>, i + 1)
            ELSE IF b \in {BACKSLASH, QUOTE} THEN more(<<BACKSLASH, b>>, i + 1)
            ELSE IF b = 8 THEN more(<<BACKSLASH, 98>>, i + 1)
            ELSE IF b = 12 THEN more(<<BACKSLASH, 102>>, i + 1)
            ELSE IF b = LF THEN more(<<BACKSLASH, 110>>, i + 1)
            ELSE IF b = CR THEN more(<<BACKSLASH, 114>>, i + 1)
            ELSE IF b = TAB THEN more(<<BACKSLASH, 116>>, i + 1)
            ELSE more(<<BACKSLASH, 117, ZERO, ZERO, HexDigit(b \div 16), HexDigit(b % 16)>>,
                      i + 1)
        ELSE LET d == DecodeRune(src, i) IN
            IF d.rune = RuneError /\ d.size = 1 THEN more(ReplacementEscape, i + 1)
            ELSE IF d.rune \in {8232, 8233}
            THEN more(<<BACKSLASH, 117, 50, ZERO, 50, HexDigit(d.rune % 16)>>, i + d.size)
            ELSE more(SubSeq(src, i, i + d.size - 1), i + d.size)

RECURSIVE appendLoop(_, _, _)
\* up to 2^k rounds of appendStep from the state st, stopping at the end of src
appendLoop(src, st, k) ==
    IF st.pos > Len(src) THEN st
    ELSE IF k = 0 THEN appendStep(src, st)
    ELSE appendLoop(src, appendLoop(src, st, k - 1), k - 1)

\* the body of appendString: src escaped, without the enclosing quotes
appendEscaped(src) == appendLoop(src, [dst |-> <<>>, pos |-> 1], Log2(Len(src))).dst

\* appendString: src as a JSON string literal, quotes included.  This is
\* json.Marshal of a Go string.
appendString(src) == <<QUOTE>> \o appendEscaped(src) \o <<QUOTE>>

RECURSIVE Itoa(_)
\* the decimal digits of n >= 0
Itoa(n) == IF n < 10 THEN <<ZERO + n>> ELSE Itoa(n \div 10) \o <<ZERO + (n % 10)>>

Zeros(n) == [k \in 1..n |-> ZERO]

\* the sign and the significant digits of v, without its decimal exponent
floatEncoderDigits(v) ==
    (IF v.neg THEN <<MINUS>> ELSE <<>>) \o (IF v.digs = <<>> THEN <<ZERO>> ELSE v.digs)

\* floatEncoder.encode for a float64: strconv.AppendFloat(b, f, fmt, -1, 64)
\* with fmt 'e' when abs < 1e-6 or abs >= 1e21 and 'f' otherwise, and the
\* exponent e-09 cleaned up to e-9
floatEncoder(v) ==
    LET sign == IF v.neg THEN <<MINUS>> ELSE <<>>
        n == Len(v.digs)
        x == v.pt - 1
        ax == IF x < 0 THEN 0 - x ELSE x
    IN  IF n = 0 THEN sign \o <<ZERO>>
        ELSE IF v.pt <= -6 \/ v.pt >= 22 THEN
            sign \o <<v.digs[1]>>
                 \o (IF n > 1 THEN <<DOT>> \o SubSeq(v.digs, 2, n) ELSE <<>>)
                 \o <<101, IF x < 0 THEN MINUS ELSE PLUS>>
                 \o Itoa(ax)
        ELSE IF v.pt <= 0 THEN sign \o <<ZERO, DOT>> \o Zeros(0 - v.pt) \o v.digs
        ELSE IF v.pt >= n THEN sign \o v.digs \o Zeros(v.pt - n)
        ELSE sign \o SubSeq(v.digs, 1, v.pt) \o <<DOT>> \o SubSeq(v.digs, v.pt + 1, n)

\* a line break followed by one space for each level
appendNewlineOneSpace(depth) == <<LF>> \o [k \in 1..depth |-> SPACE]

\* a line break followed by the indent "  " depth times (appendNewline)
appendNewline(depth) == <<LF>> \o [k \in 1..(2 * depth) |-> SPACE]

RECURSIVE marshalValue(_, _, _)
RECURSIVE marshalElems(_, _, _)
RECURSIVE marshalMembers(_, _, _)

\* The encoding of v.  indent = FALSE: json.Marshal(v).  indent = TRUE:
\* json.MarshalIndent(v, "", "  "), which is json.Marshal(v) passed through
\* appendIndent: a line break and one more indent level after an opening
\* bracket unless the closing bracket follows at once, a line break after a
\* comma, a space after a colon.  Map members are encoded in ascending order
\* of their keys (mapEncoder.encode sorts them).
marshalValue(v, indent, depth) ==
    CASE v.t = "null" -> NullText
      [] v.t = "bool" -> IF v.b THEN TrueText ELSE FalseText
      [] v.t = "num" -> floatEncoder(v)
      [] v.t = "str" -> appendString(v.s)
      [] v.t = "arr" ->
            IF v.a = <<>> THEN <<LBRACKET, RBRACKET>>
            ELSE <<LBRACKET>>
                 \o (IF indent THEN appendNewline(depth + 1) ELSE <<>>)
                 \o marshalElems(v.a, indent, depth + 1)
                 \o (IF indent THEN appendNewline(depth) ELSE <<>>)
                 \o <<RBRACKET>>
      [] v.t = "obj" ->
            IF v.m = <<>> THEN <<LBRACE, RBRACE>>
            ELSE <<LBRACE>>
                 \o (IF indent THEN appendNewline(depth + 1) ELSE <<>>)
                 \o marshalMembers(v.m, indent, depth + 1)
                 \o (IF indent THEN appendNewline(depth) ELSE <<>>)
                 \o <<RBRACE>>

marshalElems(a, indent, depth) ==
    marshalValue(a[1], indent, depth)
    \o (IF Len(a) = 1 THEN <<>>
        ELSE <<COMMA>> \o (IF indent THEN appendNewline(depth) ELSE <<>>)
             \o marshalElems(Tail(a), indent, depth))

marshalMembers(m, indent, depth) ==
    appendString(m[1].k) \o <<COLON>> \o (IF indent THEN <<SPACE>> ELSE <<>>)
    \o marshalValue(m[1].v, indent, depth)
    \o (IF Len(m) = 1 THEN <<>>
        ELSE <<COMMA>> \o (IF indent THEN appendNewline(depth) ELSE <<>>)
             \o marshalMembers(Tail(m), indent, depth))

RECURSIVE MarshalErr(_)
\* The error of json.Marshal(v) and of json.MarshalIndent(v, "", "  ") for v a
\* nil, bool, float64, string, []interface{} or map[string]interface{}:
\* floatEncoder.encode reports an UnsupportedValueError for an infinity (or a
\* NaN); no other encoder of these types reports an error.
MarshalErr(v) ==
    IF v.t = "inf" THEN "UnsupportedValueError"
    ELSE IF v.t = "arr" /\ \E k \in 1..Len(v.a) : MarshalErr(v.a[k]) # "nil"
    THEN "UnsupportedValueError"
    ELSE IF v.t = "obj" /\ \E k \in 1..Len(v.m) : MarshalErr(v.m[k].v) # "nil"
    THEN "UnsupportedValueError"
    ELSE "nil"

\* json.Marshal(v)
Marshal(v) == marshalValue(v, FALSE, 0)
\* json.MarshalIndent(v, "", "  ")
MarshalIndent(v) == marshalValue(v, TRUE, 0)

(***************************************************************************)
(* strings                                                                 *)
(***************************************************************************)
RECURSIVE TrimLeft(_, _)
\* strings.TrimLeft(s, cutset) for a cutset of the one byte c
TrimLeft(s, c) == IF s # <<>> /\ s[1] = c THEN TrimLeft(Tail(s), c) ELSE s

RECURSIVE TrimRight(_, _)
\* strings.TrimRight(s, cutset) for a cutset of the one byte c
TrimRight(s, c) ==
    IF s # <<>> /\ s[Len(s)] = c THEN TrimRight(SubSeq(s, 1, Len(s) - 1), c) ELSE s

\* Trim that leaves the end of s alone
TrimLeftOnly(s, c) == TrimLeft(s, c)

\* strings.Trim(s, cutset) for a cutset of the one byte c: every leading and
\* every trailing c is removed
Trim(s, c) == TrimRight(TrimLeft(s, c), c)

(***************************************************************************)
(* pkg/jsonstr                                                             *)
(***************************************************************************)
\* the errors of Encode and Decode, by the text that fmt.Errorf puts first
ErrInvalidJSON == "invalid JSON"
ErrCompacting == "error compacting JSON"
ErrEncoding == "error encoding JSON"
ErrInvalidJSONString == "invalid JSON string"
ErrDecodedNotJSON == "decoded string is not valid JSON"
ErrFormatting == "error formatting JSON"
ErrMarshaling == "error marshaling JSON"
NoErr == "nil"

\* func Encode(input []byte, compact bool) (string, error)
Encode(in, compact) ==
    LET escape(jsonStr) ==
            IF MarshalErr(Str(jsonStr)) # "nil" THEN [result |-> <<>>, err |-> ErrEncoding]
            ELSE [result |-> Trim(appendString(jsonStr), QUOTE), err |-> NoErr]
        validated(temp) ==
            IF temp.err # "nil" THEN [result |-> <<>>, err |-> ErrInvalidJSON]
            ELSE IF compact /\ MarshalErr(temp.val) # "nil"
            THEN [result |-> <<>>, err |-> ErrCompacting]
            ELSE escape(IF compact THEN Marshal(temp.val) ELSE in)
    IN  validated(Unmarshal(in))

\* Decode with the failure of the second json.Unmarshal wrapped in the message
\* of the first
DecodeOneMessage(in, pretty) ==
    LET format(parsedJSON) ==
            IF parsedJSON.err # "nil" THEN [result |-> <<>>, err |-> ErrInvalidJSONString]
            ELSE IF pretty THEN [result |-> MarshalIndent(parsedJSON.val), err |-> NoErr]
            ELSE [result |-> Marshal(parsedJSON.val), err |-> NoErr]
        validate(jsonString) ==
            IF jsonString.err # "nil" THEN [result |-> <<>>, err |-> ErrInvalidJSONString]
            ELSE format(Unmarshal(jsonString.str))
    IN  validate(UnmarshalString(<<QUOTE>> \o in \o <<QUOTE>>))

\* Decode without the check of the error of the first json.Unmarshal
DecodeUnchecked(in, pretty) ==
    LET format(parsedJSON) ==
            IF parsedJSON.err # "nil" THEN [result |-> <<>>, err |-> ErrDecodedNotJSON]
            ELSE IF pretty THEN [result |-> MarshalIndent(parsedJSON.val), err |-> NoErr]
            ELSE [result |-> Marshal(parsedJSON.val), err |-> NoErr]
        validate(jsonString) == format(Unmarshal(jsonString.str))
    IN  validate(UnmarshalString(<<QUOTE>> \o in \o <<QUOTE>>))

\* func Decode(input []byte, pretty bool) (string, error)
Decode(in, pretty) ==
    LET quotedInput == <<QUOTE>> \o in \o <<QUOTE>>
        format(parsedJSON) ==
            IF parsedJSON.err # "nil" THEN [result |-> <<>>, err |-> ErrDecodedNotJSON]
            ELSE IF MarshalErr(parsedJSON.val) # "nil"
            THEN [result |-> <<>>, err |-> IF pretty THEN ErrFormatting ELSE ErrMarshaling]
            ELSE IF pretty THEN [result |-> MarshalIndent(parsedJSON.val), err |-> NoErr]
            ELSE [result |-> Marshal(parsedJSON.val), err |-> NoErr]
        validate(jsonString) ==
            IF jsonString.err # "nil" THEN [result |-> <<>>, err |-> ErrInvalidJSONString]
            ELSE format(Unmarshal(jsonString.str))
    IN  validate(UnmarshalString(quotedInput))

(***************************************************************************)
(* Inputs: the byte strings a call is given                                *)
(***************************************************************************)
\* bounds of the model
MaxRawLen == 4
MaxElems == 2
MaxMembers == 2
MaxCalls == 3
\* the number of goroutines that call concurrently
NumGoroutines == 2

\* the bytes of the exhaustively enumerated inputs:
\* " \ LF space [ ] , 0 1 e n and the byte 0xFF (never valid in UTF-8)
RawAlphabet ==
    {QUOTE, BACKSLASH, LF, SPACE, LBRACKET, RBRACKET, COMMA, ZERO, 49, 101, 110, 255}

\* every byte string over RawAlphabet of length at most MaxRawLen
RawTexts == UNION {[1..n -> RawAlphabet] : n \in 0..MaxRawLen}

\* TestEncode "Simple JSON object": {"name":"John","age":30}
SimpleObject ==
    <<123, 34, 110, 97, 109, 101, 34, 58, 34, 74, 111, 104, 110, 34, 44, 34, 97, 103,
      101, 34, 58, 51, 48, 125>>

\* TestEncode "Pretty JSON object": the same object on four lines, indented by two spaces
PrettyObject ==
    <<123, 10, 32, 32, 34, 110, 97, 109, 101, 34, 58, 32, 34, 74, 111, 104, 110, 34,
      44, 10, 32, 32, 34, 97, 103, 101, 34, 58, 32, 51, 48, 10, 125>>

\* TestEncode "JSON array": [1,2,3,4,5]
SimpleArray ==
    <<91, 49, 44, 50, 44, 51, 44, 52, 44, 53, 93>>

\* TestEncode "JSON array with compact option": [1,2,3] on five lines
PrettyArray ==
    <<91, 10, 32, 32, 49, 44, 10, 32, 32, 50, 44, 10, 32, 32, 51, 10, 93>>

\* TestEncode "Number value": 42
Number42 ==
    <<52, 50>>

\* TestEncode "Invalid JSON - missing value": {"name":"John", "age":}
MissingValue ==
    <<123, 34, 110, 97, 109, 101, 34, 58, 34, 74, 111, 104, 110, 34, 44, 32, 34, 97,
      103, 101, 34, 58, 125>>

\* TestEncode "Invalid JSON - extra comma": {"name":"John", "age":30,}
ExtraComma ==
    <<123, 34, 110, 97, 109, 101, 34, 58, 34, 74, 111, 104, 110, 34, 44, 32, 34, 97,
      103, 101, 34, 58, 51, 48, 44, 125>>

\* TestEncode "Invalid JSON - incomplete object": {"name":"John"
IncompleteObject ==
    <<123, 34, 110, 97, 109, 101, 34, 58, 34, 74, 111, 104, 110, 34>>

\* TestEncode "Invalid JSON - missing closing bracket": {"array": [1, 2, 3 }
MissingClosingBracket ==
    <<123, 34, 97, 114, 114, 97, 121, 34, 58, 32, 91, 49, 44, 32, 50, 44, 32, 51, 32,
      125>>

\* TestEncode "Whitespace only": three spaces, a line feed, a tab
WhitespaceOnly ==
    <<32, 32, 32, 10, 9>>

\* TestEncode "Non-JSON input": This is not JSON
NotJSON ==
    <<84, 104, 105, 115, 32, 105, 115, 32, 110, 111, 116, 32, 74, 83, 79, 78>>

\* TestDecode "Simple escaped JSON": {\"name\":\"John\",\"age\":30}
EscapedSimpleObject ==
    <<123, 92, 34, 110, 97, 109, 101, 92, 34, 58, 92, 34, 74, 111, 104, 110, 92, 34,
      44, 92, 34, 97, 103, 101, 92, 34, 58, 51, 48, 125>>

\* TestDecode "Escaped JSON array": [\"one\",\"two\",\"three\"]
EscapedArray ==
    <<91, 92, 34, 111, 110, 101, 92, 34, 44, 92, 34, 116, 119, 111, 92, 34, 44, 92, 34,
      116, 104, 114, 101, 101, 92, 34, 93>>

\* TestDecode "Invalid escaped JSON - extra comma"
EscapedExtraComma ==
    <<123, 92, 34, 110, 97, 109, 101, 92, 34, 58, 92, 34, 74, 111, 104, 110, 92, 34,
      44, 32, 92, 34, 97, 103, 101, 92, 34, 58, 51, 48, 44, 125>>

\* TestDecode "Invalid escaped JSON - broken escape sequence": {\\\"name\":\"John\"}
EscapedBrokenEscape ==
    <<123, 92, 92, 92, 34, 110, 97, 109, 101, 92, 34, 58, 92, 34, 74, 111, 104, 110,
      92, 34, 125>>

\* README "Encoding Example": members name, age, city on five lines
ReadmeObject ==
    <<123, 10, 32, 32, 34, 110, 97, 109, 101, 34, 58, 32, 34, 74, 111, 104, 110, 34,
      44, 10, 32, 32, 34, 97, 103, 101, 34, 58, 32, 51, 48, 44, 10, 32, 32, 34, 99,
      105, 116, 121, 34, 58, 32, 34, 78, 101, 119, 32, 89, 111, 114, 107, 34, 10, 125>>

\* README "Decoding Example": the escaped text of {"name":"John","age":30,"city":"New York"}
ReadmeEscaped ==
    <<123, 92, 34, 110, 97, 109, 101, 92, 34, 58, 92, 34, 74, 111, 104, 110, 92, 34,
      44, 92, 34, 97, 103, 101, 92, 34, 58, 51, 48, 44, 92, 34, 99, 105, 116, 121, 92,
      34, 58, 92, 34, 78, 101, 119, 32, 89, 111, 114, 107, 92, 34, 125>>

SampleTexts ==
    {SimpleObject, PrettyObject, SimpleArray, PrettyArray, Number42, MissingValue,
     ExtraComma, IncompleteObject, MissingClosingBracket, WhitespaceOnly, NotJSON,
     EscapedSimpleObject, EscapedArray, EscapedExtraComma, EscapedBrokenEscape,
     ReadmeObject, ReadmeEscaped}

\* t with one byte removed, for every byte of t
Deletions(t) == {SubSeq(t, 1, i - 1) \o SubSeq(t, i + 1, Len(t)) : i \in 1..Len(t)}

\* JSON scalars: null, true, 1, -0, 1.50, 1e2, 1e999, 1e-999, "", "a", "\"", "\\", "\n"
\* , "<", "\u0041", "e-acute" in UTF-8, a string holding the byte 0xFF
ScalarTexts ==
    {<<110, 117, 108, 108>>,
     <<116, 114, 117, 101>>,
     <<49>>,
     <<45, 48>>,
     <<49, 46, 53, 48>>,
     <<49, 101, 50>>,
     <<49, 101, 57, 57, 57>>,
     <<49, 101, 45, 57, 57, 57>>,
     <<34, 34>>,
     <<34, 97, 34>>,
     <<34, 92, 34, 34>>,
     <<34, 92, 92, 34>>,
     <<34, 92, 110, 34>>,
     <<34, 60, 34>>,
     <<34, 92, 117, 48, 48, 52, 49, 34>>,
     <<34, 195, 169, 34>>,
     <<34, 255, 34>>}

\* a scalar alone, followed by a line feed (as echo writes it), after a space
ScalarInputs == UNION {{t, t \o <<LF>>, <<SPACE>> \o t} : t \in ScalarTexts}

RECURSIVE Join(_, _)
\* the texts ts separated by sep
Join(ts, sep) ==
    IF ts = <<>> THEN <<>>
    ELSE IF Len(ts) = 1 THEN ts[1]
    ELSE ts[1] \o sep \o Join(Tail(ts), sep)

\* the separator between the items of a bracketed list, and what follows the
\* opening and precedes the closing bracket of a non-empty list
ItemSep(pretty) == IF pretty THEN <<COMMA, LF, SPACE, SPACE>> ELSE <<COMMA>>
ListOpen(pretty) == IF pretty THEN <<LF, SPACE, SPACE>> ELSE <<>>
ListClose(pretty) == IF pretty THEN <<LF>> ELSE <<>>

\* array elements: 1, "a", null, [], {"a":1}
ElemTexts ==
    {<<49>>, <<34, 97, 34>>, NullText, <<LBRACKET, RBRACKET>>,
     <<123, 34, 97, 34, 58, 49, 125>>}

ArrayText(es, pretty) ==
    IF es = <<>> THEN <<LBRACKET, RBRACKET>>
    ELSE <<LBRACKET>> \o ListOpen(pretty) \o Join(es, ItemSep(pretty))
         \o ListClose(pretty) \o <<RBRACKET>>

\* the arrays of at most MaxElems elements, on one line and one element a line
ArrayTexts ==
    {ArrayText(es, p) : es \in UNION {[1..n -> ElemTexts] : n \in 0..MaxElems},
                        p \in BOOLEAN}

\* member keys a, b and member values 1, "x", [2]
MemberKeys == {<<97>>, <<98>>}
MemberValues == {<<49>>, <<34, 120, 34>>, <<91, 50, 93>>}

MemberText(kv, pretty) ==
    <<QUOTE>> \o kv[1] \o <<QUOTE, COLON>> \o (IF pretty THEN <<SPACE>> ELSE <<>>) \o kv[2]

ObjectText(ms, pretty) ==
    IF ms = <<>> THEN <<LBRACE, RBRACE>>
    ELSE <<LBRACE>> \o ListOpen(pretty)
         \o Join([k \in 1..Len(ms) |-> MemberText(ms[k], pretty)], ItemSep(pretty))
         \o ListClose(pretty) \o <<RBRACE>>

\* the objects of at most MaxMembers members (in any order, keys may repeat),
\* on one line and one member a line
ObjectTexts ==
    {ObjectText(ms, p) :
        ms \in UNION {[1..n -> MemberKeys \X MemberValues] : n \in 0..MaxMembers},
        p \in BOOLEAN}

Inputs ==
    RawTexts \cup SampleTexts \cup Deletions(SimpleObject) \cup Deletions(EscapedSimpleObject)
    \cup ScalarInputs \cup ArrayTexts \cup ObjectTexts

(***************************************************************************)
(* Calls of Encode and Decode, and the output of one call piped into the   *)
(* next (README, "Piping Example")                                         *)
(***************************************************************************)
VARIABLES
    input,      \* the bytes given to the call
    op,         \* "none" before the call, then "Encode" or "Decode"
    flag,       \* the call's compact (Encode) or pretty (Decode) argument
    result,     \* the string returned
    err,        \* the error returned, NoErr for nil
    hist,       \* the earlier calls of the pipe: op, flag, input, result
    calls,      \* concurrent calls: for each goroutine its arguments and locals
    argv,       \* the command line: the options given and their values
    flags,      \* the flag variables of main after flag.Parse
    env,        \* the file system and the standard input of the process
    pc,         \* where main is: "idle", "parsed", "read", "called", "exited"
    stdout,     \* the bytes written to standard output
    stderr,     \* the messages written to standard error
    exitCode,   \* the exit status of the process
    invoked     \* the calls main made to the package: op, flag, input

\* the process of the command line tool
process == <<argv, flags, env, pc, stdout, stderr, exitCode, invoked>>

vars == <<input, op, flag, result, err, hist, calls, process>>

\* what a single call or a pipe of calls leaves alone
others == <<calls, process>>
\* what a step of a concurrent call leaves alone
outsideCalls == <<input, op, flag, result, err, hist, process>>

\* the options of the command line: --file and --json with a value (given or
\* not), and the six switches
Args(file, json, compact, decode, pretty, raw, version, help) ==
    [file |-> file, json |-> json, compact |-> compact, decode |-> decode,
     pretty |-> pretty, raw |-> raw, version |-> version, help |-> help]
Absent == [given |-> FALSE, value |-> <<>>]
NoFile == [given |-> FALSE, value |-> ""]
Given(v) == [given |-> TRUE, value |-> v]

\* flag.StringVar, flag.BoolVar and flag.Parse: a flag that is not given
\* keeps its default, "" or false
Parse(a) ==
    [inputFile |-> IF a.file.given THEN a.file.value ELSE "",
     inputString |-> IF a.json.given THEN a.json.value ELSE <<>>,
     compact |-> a.compact,
     decode |-> a.decode,
     pretty |-> a.pretty,
     rawOutput |-> a.raw,
     showVersion |-> a.version,
     showHelp |-> a.help]

\* no process runs
NoProcess ==
    /\ argv = Args(NoFile, Absent, FALSE, FALSE, FALSE, FALSE, FALSE, FALSE)
    /\ flags = Parse(argv)
    /\ env = [file |-> <<>>, stdin |-> [kind |-> "terminal", data |-> <<>>, read |-> FALSE]]
    /\ pc = "idle"
    /\ stdout = <<>>
    /\ stderr = <<>>
    /\ exitCode = 0
    /\ invoked = <<>>

Init ==
    /\ input \in Inputs
    /\ op = "none"
    /\ flag = FALSE
    /\ result = <<>>
    /\ err = NoErr
    /\ hist = <<>>
    /\ calls = <<>>
    /\ NoProcess

\* result, err := jsonstr.Encode(input, compact)
CallEncode(compact) ==
    /\ op = "none"
    /\ LET r == Encode(input, compact) IN
        /\ result' = r.result
        /\ err' = r.err
    /\ op' = "Encode"
    /\ flag' = compact
    /\ UNCHANGED <<input, hist, others>>

\* result, err := jsonstr.Decode(input, pretty)
CallDecode(pretty) ==
    /\ op = "none"
    /\ LET r == Decode(input, pretty) IN
        /\ result' = r.result
        /\ err' = r.err
    /\ op' = "Decode"
    /\ flag' = pretty
    /\ UNCHANGED <<input, hist, others>>

\* the result of a call that succeeded becomes the input of the next call
Pipe ==
    /\ op # "none"
    /\ err = NoErr
    /\ Len(hist) + 1 < MaxCalls
    /\ hist' = Append(hist, [op |-> op, flag |-> flag, input |-> input, result |-> result])
    /\ input' = result
    /\ op' = "none"
    /\ flag' = FALSE
    /\ result' = <<>>
    /\ UNCHANGED <<err, others>>

Next ==
    \/ \E compact \in BOOLEAN : CallEncode(compact)
    \/ \E pretty \in BOOLEAN : CallDecode(pretty)
    \/ Pipe

Spec == Init /\ [][Next]_vars

(***************************************************************************)
(* Concurrent calls: every goroutine makes one call of Encode or Decode,   *)
(* one statement at a time, its arguments and local variables in           *)
(* calls[g].  The package declares no variable outside its two functions.  *)
(***************************************************************************)
Goroutines == 1..NumGoroutines

\* [1], {"b":1,"a":2} after a space, "a", x, [\"a\"]
ConcurrentInputs ==
    {<<91, 49, 93>>,
     <<32, 123, 34, 98, 34, 58, 49, 44, 34, 97, 34, 58, 50, 125>>,
     <<34, 97, 34>>,
     <<120>>,
     <<91, 92, 34, 97, 92, 34, 93>>}

\* a goroutine about to call op(in, fl); v holds temp or parsedJSON, str holds
\* jsonStr then result, or quotedInput then jsonString
NewCall(o, fl, in) ==
    [op |-> o, flag |-> fl, input |-> in, pc |-> "start",
     v |-> Null, str |-> <<>>, result |-> <<>>, err |-> NoErr]

Return(c, res, e) == [c EXCEPT !.pc = "done", !.result = res, !.err = e]

InitCalls ==
    /\ calls \in [Goroutines -> {NewCall(o, fl, in) : o \in {"Encode", "Decode"},
                                                    fl \in BOOLEAN,
                                                    in \in ConcurrentInputs}]
    /\ input = <<>>
    /\ op = "none"
    /\ flag = FALSE
    /\ result = <<>>
    /\ err = NoErr
    /\ hist = <<>>
    /\ NoProcess

\* EncodeUnmarshal with the error of json.Unmarshal returned only when compact
\* is set, the one case where temp is used afterwards
EncodeUnmarshalWhenCompact(g) ==
    /\ calls[g].op = "Encode" /\ calls[g].pc = "start"
    /\ LET store(temp) ==
            IF temp.err # "nil" /\ calls[g].flag THEN Return(calls[g], <<>>, ErrInvalidJSON)
            ELSE [calls[g] EXCEPT !.pc = "validated", !.v = temp.val]
       IN  calls' = [calls EXCEPT ![g] = store(Unmarshal(calls[g].input))]
    /\ UNCHANGED outsideCalls

\* EncodeUnmarshal without the return on the error: the call goes on with the
\* nil value of temp
EncodeUnmarshalContinue(g) ==
    /\ calls[g].op = "Encode" /\ calls[g].pc = "start"
    /\ LET store(temp) == [calls[g] EXCEPT !.pc = "validated", !.v = temp.val]
       IN  calls' = [calls EXCEPT ![g] = store(Unmarshal(calls[g].input))]
    /\ UNCHANGED outsideCalls

\* Encode: err := json.Unmarshal(input, &temp), and the return on its error
EncodeUnmarshal(g) ==
    /\ calls[g].op = "Encode" /\ calls[g].pc = "start"
    /\ LET store(temp) ==
            IF temp.err # "nil" THEN Return(calls[g], <<>>, ErrInvalidJSON)
            ELSE [calls[g] EXCEPT !.pc = "validated", !.v = temp.val]
       IN  calls' = [calls EXCEPT ![g] = store(Unmarshal(calls[g].input))]
    /\ UNCHANGED outsideCalls

\* Encode: jsonStr is the compacted value (json.Marshal(temp), and the return
\* on its error) or the input
EncodeSelect(g) ==
    /\ calls[g].op = "Encode" /\ calls[g].pc = "validated"
    /\ calls' = [calls EXCEPT
                    ![g] = IF calls[g].flag /\ MarshalErr(calls[g].v) # "nil"
                           THEN Return(calls[g], <<>>, ErrCompacting)
                           ELSE [calls[g] EXCEPT
                                    !.pc = "selected",
                                    !.str = IF calls[g].flag THEN Marshal(calls[g].v)
                                            ELSE calls[g].input]]
    /\ UNCHANGED outsideCalls

\* Encode: result, err := json.Marshal(jsonStr), and the return on its error
EncodeEscape(g) ==
    /\ calls[g].op = "Encode" /\ calls[g].pc = "selected"
    /\ calls' = [calls EXCEPT
                    ![g] = IF MarshalErr(Str(calls[g].str)) # "nil"
                           THEN Return(calls[g], <<>>, ErrEncoding)
                           ELSE [calls[g] EXCEPT !.pc = "escaped",
                                                 !.str = appendString(calls[g].str)]]
    /\ UNCHANGED outsideCalls

\* Encode: return strings.Trim(string(result), "\""), nil
EncodeTrim(g) ==
    /\ calls[g].op = "Encode" /\ calls[g].pc = "escaped"
    /\ calls' = [calls EXCEPT ![g] = Return(calls[g], Trim(calls[g].str, QUOTE), NoErr)]
    /\ UNCHANGED outsideCalls

\* Decode: quotedInput := fmt.Sprintf("\"%s\"", string(input))
DecodeQuote(g) ==
    /\ calls[g].op = "Decode" /\ calls[g].pc = "start"
    /\ calls' = [calls EXCEPT ![g].pc = "quoted",
                              ![g].str = <<QUOTE>> \o calls[g].input \o <<QUOTE>>]
    /\ UNCHANGED outsideCalls

\* Decode: json.Unmarshal([]byte(quotedInput), &jsonString), and the return
\* on its error
DecodeUnquote(g) ==
    /\ calls[g].op = "Decode" /\ calls[g].pc = "quoted"
    /\ LET store(jsonString) ==
            IF jsonString.err # "nil" THEN Return(calls[g], <<>>, ErrInvalidJSONString)
            ELSE [calls[g] EXCEPT !.pc = "unquoted", !.str = jsonString.str]
       IN  calls' = [calls EXCEPT ![g] = store(UnmarshalString(calls[g].str))]
    /\ UNCHANGED outsideCalls

\* DecodeValidate with parsedJSON kept in one variable of the package, which
\* every call in progress reads
DecodeValidateShared(g) ==
    /\ calls[g].op = "Decode" /\ calls[g].pc = "unquoted"
    /\ LET store(c, parsedJSON) ==
            IF c.pc = "done" THEN c ELSE [c EXCEPT !.v = parsedJSON.val]
           mine(parsedJSON) ==
            IF parsedJSON.err # "nil" THEN Return(calls[g], <<>>, ErrDecodedNotJSON)
            ELSE [calls[g] EXCEPT !.pc = "validated", !.v = parsedJSON.val]
           all(parsedJSON) ==
            [h \in Goroutines |-> IF h = g THEN mine(parsedJSON)
                                  ELSE store(calls[h], parsedJSON)]
       IN  calls' = all(Unmarshal(calls[g].str))
    /\ UNCHANGED outsideCalls

\* Decode: json.Unmarshal([]byte(jsonString), &parsedJSON), and the return on
\* its error
DecodeValidate(g) ==
    /\ calls[g].op = "Decode" /\ calls[g].pc = "unquoted"
    /\ LET store(parsedJSON) ==
            IF parsedJSON.err # "nil" THEN Return(calls[g], <<>>, ErrDecodedNotJSON)
            ELSE [calls[g] EXCEPT !.pc = "validated", !.v = parsedJSON.val]
       IN  calls' = [calls EXCEPT ![g] = store(Unmarshal(calls[g].str))]
    /\ UNCHANGED outsideCalls

\* Decode: json.MarshalIndent(parsedJSON, "", "  ") or json.Marshal(parsedJSON),
\* and the return of its result
DecodeFormat(g) ==
    /\ calls[g].op = "Decode" /\ calls[g].pc = "validated"
    /\ calls' = [calls EXCEPT
                    ![g] = IF MarshalErr(calls[g].v) # "nil"
                           THEN Return(calls[g], <<>>,
                                       IF calls[g].flag THEN ErrFormatting ELSE ErrMarshaling)
                           ELSE Return(calls[g],
                                       IF calls[g].flag THEN MarshalIndent(calls[g].v)
                                       ELSE Marshal(calls[g].v),
                                       NoErr)]
    /\ UNCHANGED outsideCalls

NextCalls ==
    \E g \in Goroutines :
        \/ EncodeUnmarshal(g)
        \/ EncodeSelect(g)
        \/ EncodeEscape(g)
        \/ EncodeTrim(g)
        \/ DecodeQuote(g)
        \/ DecodeUnquote(g)
        \/ DecodeValidate(g)
        \/ DecodeFormat(g)

SpecCalls == InitCalls /\ [][NextCalls]_vars

(***************************************************************************)
(* cmd/json-to-string: one run of main.  The file system holds one file,   *)
(* in.json; the standard input is a terminal, a pipe, or a descriptor      *)
(* that fails on read.                                                     *)
(***************************************************************************)
\* var version = "dev"
version == <<100, 101, 118>>

\* {"a":1}   [1, 2]   {   {\"a\":1}
CliTexts ==
    {<<123, 34, 97, 34, 58, 49, 125>>,
     <<91, 49, 44, 32, 50, 93>>,
     <<123>>,
     <<123, 92, 34, 97, 92, 34, 58, 49, 125>>}

FileArgs == {NoFile, Given(""), Given("in.json"), Given("missing.json")}
JsonArgs == {Absent, Given(<<>>)} \cup {Given(t) : t \in CliTexts}
\* read: io.ReadAll was called on the standard input
Stdins ==
    {[kind |-> k, data |-> <<>>, read |-> FALSE] : k \in {"terminal", "unreadable"}}
    \cup {[kind |-> "pipe", data |-> t, read |-> FALSE] : t \in CliTexts \cup {<<>>}}

InitMain ==
    /\ argv \in {Args(f, j, c, d, p, r, v, h) :
                    f \in FileArgs, j \in JsonArgs, c \in BOOLEAN, d \in BOOLEAN,
                    p \in BOOLEAN, r \in BOOLEAN, v \in BOOLEAN, h \in BOOLEAN}
    /\ flags = Parse(argv)
    /\ env \in [file : CliTexts \cup {<<>>}, stdin : Stdins]
    /\ pc = "parsed"
    /\ stdout = <<>>
    /\ stderr = <<>>
    /\ exitCode = 0
    /\ invoked = <<>>
    /\ input = <<>>
    /\ op = "none"
    /\ flag = FALSE
    /\ result = <<>>
    /\ err = NoErr
    /\ hist = <<>>
    /\ calls = <<>>

\* os.Exit(code) after the message msg on standard error
Exit(msgs, code) ==
    /\ stderr' = stderr \o msgs
    /\ exitCode' = code
    /\ pc' = "exited"

\* if showHelp { printUsage(); os.Exit(0) }
ShowHelp ==
    /\ pc = "parsed"
    /\ flags.showHelp
    /\ Exit(<<"usage">>, 0)
    /\ UNCHANGED <<input, op, flag, result, err, hist, calls, argv, flags, env, stdout,
                   invoked>>

\* if showVersion { fmt.Println(version); os.Exit(0) }
ShowVersion ==
    /\ pc = "parsed"
    /\ ~flags.showHelp
    /\ flags.showVersion
    /\ stdout' = stdout \o version \o <<LF>>
    /\ Exit(<<>>, 0)
    /\ UNCHANGED <<input, op, flag, result, err, hist, calls, argv, flags, env, invoked>>

\* main goes on to select its input
Selecting == pc = "parsed" /\ ~flags.showHelp /\ ~flags.showVersion

\* case inputFile != "": input, err = os.ReadFile(inputFile)
ReadFile ==
    /\ Selecting
    /\ flags.inputFile # ""
    /\ IF flags.inputFile = "in.json"
       THEN /\ input' = env.file
            /\ pc' = "read"
            /\ UNCHANGED <<err, stderr, exitCode>>
       ELSE /\ err' = "open: no such file or directory"
            /\ Exit(<<"Error reading file">>, 1)
            /\ UNCHANGED input
    /\ UNCHANGED <<op, flag, result, hist, calls, argv, flags, env, stdout, invoked>>

\* the --json string used whenever the option is given, even when it is empty
UseStringWhenGiven ==
    /\ Selecting
    /\ flags.inputFile = ""
    /\ argv.json.given
    /\ input' = flags.inputString
    /\ pc' = "read"
    /\ UNCHANGED <<op, flag, result, err, hist, calls, argv, flags, env, stdout, stderr,
                   exitCode, invoked>>

\* the --json string used whatever --file says
UseStringFirst ==
    /\ Selecting
    /\ flags.inputString # <<>>
    /\ input' = flags.inputString
    /\ pc' = "read"
    /\ UNCHANGED <<op, flag, result, err, hist, calls, argv, flags, env, stdout, stderr,
                   exitCode, invoked>>

\* case inputString != "": input = []byte(inputString)
UseString ==
    /\ Selecting
    /\ flags.inputFile = ""
    /\ flags.inputString # <<>>
    /\ input' = flags.inputString
    /\ pc' = "read"
    /\ UNCHANGED <<op, flag, result, err, hist, calls, argv, flags, env, stdout, stderr,
                   exitCode, invoked>>

\* default: stat, _ := os.Stdin.Stat(); io.ReadAll(os.Stdin) unless the
\* standard input is a character device
ReadStdin ==
    /\ Selecting
    /\ flags.inputFile = ""
    /\ flags.inputString = <<>>
    /\ CASE env.stdin.kind = "pipe" ->
                /\ input' = env.stdin.data
                /\ env' = [env EXCEPT !.stdin.read = TRUE]
                /\ pc' = "read"
                /\ UNCHANGED <<err, stderr, exitCode>>
         [] env.stdin.kind = "unreadable" ->
                /\ err' = "read /dev/stdin"
                /\ env' = [env EXCEPT !.stdin.read = TRUE]
                /\ Exit(<<"Error reading from stdin">>, 1)
                /\ UNCHANGED input
         [] env.stdin.kind = "terminal" ->
                /\ Exit(<<"No input provided. Use --file, --json or pipe data to stdin.",
                          "usage">>, 1)
                /\ UNCHANGED <<input, err, env>>
    /\ UNCHANGED <<op, flag, result, hist, calls, argv, flags, stdout, invoked>>

\* the call of the package recorded, its error ignored
CalledUnchecked(o, fl, r, msg) ==
    /\ invoked' = Append(invoked, [op |-> o, flag |-> fl, input |-> input])
    /\ op' = o
    /\ flag' = fl
    /\ result' = r.result
    /\ err' = r.err
    /\ pc' = "called"
    /\ UNCHANGED <<stderr, exitCode>>

\* the call of the package recorded, and the exit on its error
Called(o, fl, r, msg) ==
    /\ invoked' = Append(invoked, [op |-> o, flag |-> fl, input |-> input])
    /\ op' = o
    /\ flag' = fl
    /\ result' = r.result
    /\ err' = r.err
    /\ IF r.err # NoErr THEN Exit(<<msg>>, 1)
       ELSE pc' = "called" /\ UNCHANGED <<stderr, exitCode>>

\* a decode run that compacts: Decode of what Encode(input, compact) returns
RunDecodeAfterEncode ==
    /\ pc = "read"
    /\ flags.decode
    /\ Called("Decode", flags.pretty, Decode(Encode(input, flags.compact).result, flags.pretty),
              "Error decoding JSON string")
    /\ UNCHANGED <<input, hist, calls, argv, flags, env, stdout>>

\* if decode { result, err = jsonstr.Decode(input, pretty) ... }
RunDecode ==
    /\ pc = "read"
    /\ flags.decode
    /\ Called("Decode", flags.pretty, Decode(input, flags.pretty),
              "Error decoding JSON string")
    /\ UNCHANGED <<input, hist, calls, argv, flags, env, stdout>>

\* else { result, err = jsonstr.Encode(input, compact) ... }
RunEncode ==
    /\ pc = "read"
    /\ ~flags.decode
    /\ Called("Encode", flags.compact, Encode(input, flags.compact),
              "Error encoding JSON")
    /\ UNCHANGED <<input, hist, calls, argv, flags, env, stdout>>

\* fmt.Println(result) whatever --raw says
WriteLine ==
    /\ pc = "called"
    /\ stdout' = stdout \o result \o <<LF>>
    /\ pc' = "exited"
    /\ UNCHANGED <<input, op, flag, result, err, hist, calls, argv, flags, env, stderr,
                   exitCode, invoked>>

\* if rawOutput { fmt.Print(result) } else { fmt.Println(result) }, and the
\* return of main
WriteOutput ==
    /\ pc = "called"
    /\ stdout' = stdout \o result \o (IF flags.rawOutput THEN <<>> ELSE <<LF>>)
    /\ pc' = "exited"
    /\ UNCHANGED <<input, op, flag, result, err, hist, calls, argv, flags, env, stderr,
                   exitCode, invoked>>

NextMain ==
    \/ ShowHelp
    \/ ShowVersion
    \/ ReadFile
    \/ UseString
    \/ ReadStdin
    \/ RunDecode
    \/ RunEncode
    \/ WriteOutput

SpecMain == InitMain /\ [][NextMain]_vars

(***************************************************************************)
(* The JSON grammar of RFC 8259 and JSON string escaping, stated on the    *)
(* text alone; the properties below are stated against these.              *)
(***************************************************************************)
AllSpace(t) == \A k \in 1..Len(t) : t[k] \in {SPACE, TAB, LF, CR}
AllDigits(t) == \A k \in 1..Len(t) : t[k] \in 48..57

RECURSIVE BackslashRun(_, _)
\* the number of consecutive backslashes that end at t[j]
BackslashRun(t, j) ==
    IF j >= 1 /\ t[j] = BACKSLASH THEN 1 + BackslashRun(t, j - 1) ELSE 0

\* t[i] is preceded by a backslash that is not itself escaped
Escaped(t, i) == BackslashRun(t, i - 1) % 2 = 1

\* the four kinds of flaw of the interior of a string literal
UnescapedQuoteAt(t, i) == t[i] = QUOTE /\ ~Escaped(t, i)
RawControlAt(t, i) == t[i] < 32
BadEscapeAt(t, i) ==
    /\ Escaped(t, i)
    /\ \/ t[i] \notin {QUOTE, BACKSLASH, 47, 98, 102, 110, 114, 116, 117}
       \/ /\ t[i] = 117
          /\ ~(i + 4 <= Len(t) /\ \A k \in (i + 1)..(i + 4) : IsHex(t[k]))
LoneBackslashAtEnd(t) == t # <<>> /\ t[Len(t)] = BACKSLASH /\ ~Escaped(t, Len(t))

HasEscapeFlaw(t) ==
    \/ \E i \in 1..Len(t) : UnescapedQuoteAt(t, i) \/ RawControlAt(t, i) \/ BadEscapeAt(t, i)
    \/ LoneBackslashAtEnd(t)

\* t is the interior of a string literal: *char of RFC 8259, section 7
IsStringBody(t) == ~HasEscapeFlaw(t)

\* string = quotation-mark *char quotation-mark
IsStringText(t) ==
    /\ Len(t) >= 2
    /\ t[1] = QUOTE
    /\ t[Len(t)] = QUOTE
    /\ IsStringBody(SubSeq(t, 2, Len(t) - 1))

\* number = [ minus ] int [ frac ] [ exp ]   (RFC 8259, section 6)
IsInt(t) == t = <<ZERO>> \/ (t # <<>> /\ t[1] \in 49..57 /\ AllDigits(t))
IsFrac(t) == Len(t) >= 2 /\ t[1] = DOT /\ AllDigits(Tail(t))
IsExp(t) ==
    /\ Len(t) >= 2
    /\ t[1] \in {101, 69}
    /\ \/ AllDigits(Tail(t))
       \/ Len(t) >= 3 /\ t[2] \in {PLUS, MINUS} /\ AllDigits(Tail(Tail(t)))
IsNumberText(t) ==
    LET u == IF t # <<>> /\ t[1] = MINUS THEN Tail(t) ELSE t IN
    \E b \in 1..Len(u) : \E c \in b..Len(u) :
        /\ IsInt(SubSeq(u, 1, b))
        /\ (c = b \/ IsFrac(SubSeq(u, b + 1, c)))
        /\ (c = Len(u) \/ IsExp(SubSeq(u, c + 1, Len(u))))

\* t without its leading and trailing white space
TrimSpace(t) ==
    IF AllSpace(t) THEN <<>>
    ELSE LET a == CHOOSE i \in 1..Len(t) : ~IsSpace(t[i]) /\ AllSpace(SubSeq(t, 1, i - 1))
             b == CHOOSE j \in 1..Len(t) : ~IsSpace(t[j]) /\ AllSpace(SubSeq(t, j + 1, Len(t)))
         IN  SubSeq(t, a, b)

RECURSIVE IsValueText(_)
RECURSIVE IsElementList(_)
RECURSIVE IsMemberList(_)

\* JSON-text = ws value ws
IsJSONText(t) == IsValueText(TrimSpace(t))

\* member = string name-separator value
IsMember(t) ==
    \E k \in 1..Len(t) :
        /\ t[k] = COLON
        /\ IsStringText(TrimSpace(SubSeq(t, 1, k - 1)))
        /\ IsJSONText(SubSeq(t, k + 1, Len(t)))

\* value = false / null / true / object / array / number / string, where
\* array = [ ws ] or [ value *( , value ) ] and object likewise with members
IsValueText(t) ==
    \/ t \in {TrueText, FalseText, NullText}
    \/ IsNumberText(t)
    \/ IsStringText(t)
    \/ /\ Len(t) >= 2
       /\ t[1] = LBRACKET
       /\ t[Len(t)] = RBRACKET
       /\ LET inner == SubSeq(t, 2, Len(t) - 1) IN AllSpace(inner) \/ IsElementList(inner)
    \/ /\ Len(t) >= 2
       /\ t[1] = LBRACE
       /\ t[Len(t)] = RBRACE
       /\ LET inner == SubSeq(t, 2, Len(t) - 1) IN AllSpace(inner) \/ IsMemberList(inner)

IsElementList(t) ==
    \/ IsJSONText(t)
    \/ \E k \in 1..Len(t) :
        /\ t[k] = COMMA
        /\ IsJSONText(SubSeq(t, 1, k - 1))
        /\ IsElementList(SubSeq(t, k + 1, Len(t)))

IsMemberList(t) ==
    \/ IsMember(t)
    \/ \E k \in 1..Len(t) :
        /\ t[k] = COMMA
        /\ IsMember(SubSeq(t, 1, k - 1))
        /\ IsMemberList(SubSeq(t, k + 1, Len(t)))

IsObjectText(t) == IsJSONText(t) /\ TrimSpace(t)[1] = LBRACE

\* t[i] lies inside a string literal of the JSON text t (or is its closing quote)
InString(t, i) == Cardinality({j \in 1..(i - 1) : UnescapedQuoteAt(t, j)}) % 2 = 1

\* the JSON text t without its insignificant white space
StripSpace(t) ==
    LET idx == [i \in 1..Len(t) |-> i]
        Keep(i) == ~IsSpace(t[i]) \/ InString(t, i)
        kept == SelectSeq(idx, Keep)
    IN  [k \in 1..Len(kept) |-> t[kept[k]]]

\* a and b are JSON texts of the same value
JSONValueEqual(a, b) ==
    LET same(x, y) == x.err = "nil" /\ y.err = "nil" /\ x.val = y.val
    IN  same(Unmarshal(a), Unmarshal(b))

\* the text in quotes, read as a string literal
Requoted(t) == UnmarshalString(<<QUOTE>> \o t \o <<QUOTE>>)

\* the last call before the pipe
Prev == hist[Len(hist)]

RECURSIVE Concat(_, _, _)
\* f[lo] \o ... \o f[hi]
Concat(f, lo, hi) ==
    IF lo > hi THEN <<>>
    ELSE IF lo = hi THEN f[lo]
    ELSE LET mid == (lo + hi) \div 2 IN Concat(f, lo, mid) \o Concat(f, mid + 1, hi)

\* how one byte of an ASCII text is represented in an escaped string
EscapeOfByte(b) ==
    CASE b = LF -> <<BACKSLASH, 110>>
      [] b = QUOTE -> <<BACKSLASH, QUOTE>>
      [] b = BACKSLASH -> <<BACKSLASH, BACKSLASH>>
      [] OTHER -> appendEscaped(<<b>>)

\* the escaped form of a text: what lies between the quotes of its literal
EscapedForm(t) ==
    IF \A k \in 1..Len(t) : t[k] < RuneSelf
    THEN Concat([k \in 1..Len(t) |-> EscapeOfByte(t[k])], 1, Len(t))
    ELSE appendEscaped(t)

(***************************************************************************)
(* Properties                                                              *)
(***************************************************************************)

\* C1: round trip.  For every well-formed JSON text J, Encode(J, compact =
\* false) succeeds, Decode of its output with pretty = false succeeds, and the
\* decoded text has the same JSON value as J.
RoundTrip ==
    /\ (op = "Encode" /\ ~flag /\ IsJSONText(input)) => err = NoErr
    /\ (/\ op = "Decode" /\ ~flag
        /\ hist # <<>> /\ Prev.op = "Encode" /\ ~Prev.flag
        /\ IsJSONText(Prev.input))
       => (err = NoErr /\ JSONValueEqual(result, Prev.input))

\* C2: encoder result guarantee.  Whenever Encode succeeds, its result put
\* back between two quotes is a string literal whose value is exactly the
\* string of step 2: the raw input (compact = false) or the minimal
\* serialization (compact = true).
EncodeResultGuarantee ==
    (op = "Encode" /\ err = NoErr) =>
        LET step2 == IF flag THEN Marshal(Unmarshal(input).val) ELSE input IN
        /\ Requoted(result).err = "nil"
        /\ Requoted(result).str = step2

\* C3: Encode fails with the "invalid JSON" error and the empty result for
\* every input that is not one well-formed JSON value, and succeeds for every
\* input that is one.
EncodeAcceptsExactlyJSON ==
    op = "Encode" =>
        IF IsJSONText(input) THEN err = NoErr
        ELSE err = ErrInvalidJSON /\ result = <<>>

\* C4: with compact = false the result is the input escaped byte for byte
\* (LF as \n, a quote as \", a backslash as \\), nothing reordered or dropped.
VerbatimEscape ==
    (op = "Encode" /\ ~flag /\ err = NoErr) => result = EscapedForm(input)

\* C5: with compact = true the result is the escaped form of the
\* serialization of the parsed value without white space, members in
\* ascending key order; the pretty-printed object with members name, age
\* gives the escaped {"age":30,"name":"John"}, the multi-line array [1,2,3].
CompactSerialization ==
    (op = "Encode" /\ flag /\ err = NoErr) =>
        /\ result = EscapedForm(Marshal(Unmarshal(input).val))
        /\ input = PrettyObject =>
              Requoted(result).str =
                  <<123, 34, 97, 103, 101, 34, 58, 51, 48, 44,
                    34, 110, 97, 109, 101, 34, 58, 34, 74, 111, 104, 110, 34, 125>>
        /\ input = PrettyArray => result = <<91, 49, 44, 50, 44, 51, 93>>

\* C6: compact encoding only removes white space: for an object the result
\* is the escaped form of the input without its insignificant white space,
\* the members in the order of the input.
CompactKeepsMemberOrder ==
    (op = "Encode" /\ flag /\ err = NoErr /\ IsObjectText(input)) =>
        /\ result = EscapedForm(StripSpace(input))
        /\ input = ReadmeObject => result = ReadmeEscaped

\* C7: Decode with pretty = false of the escaped form of an object text
\* without white space returns that text, members in the order given.
DecodeKeepsMemberOrder ==
    (/\ op = "Decode" /\ ~flag /\ err = NoErr
     /\ IsObjectText(Requoted(input).str)
     /\ StripSpace(Requoted(input).str) = Requoted(input).str)
    => /\ result = Requoted(input).str
       /\ input = EscapedSimpleObject => result = SimpleObject

\* C8 as stated: Decode of the empty input fails at the unescape step with
\* the "invalid JSON string" error.
DecodeEmptyFailsUnescape ==
    (op = "Decode" /\ input = <<>>) => err = ErrInvalidJSONString

\* C8 as amended: Decode of the empty input fails at the re-validation step
\* with the "decoded string is not valid JSON" error and the empty result;
\* the empty input in quotes is the valid literal of the empty string.
DecodeEmptyFailsValidation ==
    (op = "Decode" /\ input = <<>>) =>
        /\ err = ErrDecodedNotJSON
        /\ result = <<>>
        /\ Requoted(input).err = "nil"

DecodeEmptyWitness ==
    op = "Decode" /\ input = <<>> /\ err = ErrDecodedNotJSON

\* C9: Decode fails with the "invalid JSON string" error for every input that
\* holds an unescaped quote, a raw control character, a backslash that does
\* not start a valid escape, or a lone backslash at its end.
DecodeRejectsEscapeFlaw ==
    (op = "Decode" /\ HasEscapeFlaw(input)) =>
        /\ err = ErrInvalidJSONString
        /\ result = <<>>

\* the "missing escape" test: an object text given to Decode unescaped
DecodeRejectsEscapeFlawWitness ==
    /\ op = "Decode"
    /\ input = SimpleObject
    /\ \E i \in 1..Len(input) : UnescapedQuoteAt(input, i)
    /\ err = ErrInvalidJSONString

\* C10: Decode fails with the "decoded string is not valid JSON" error
\* exactly when the input in quotes is a valid string literal whose value
\* is not a well-formed JSON value; the unescape error takes precedence.
DecodedNotJSONExactly ==
    op = "Decode" =>
        /\ err = ErrDecodedNotJSON <=>
              (IsStringBody(input) /\ ~IsJSONText(Requoted(input).str))
        /\ ~IsStringBody(input) => err = ErrInvalidJSONString

\* C11: idempotent compaction.  For every well-formed JSON text J,
\* Encode(J, compact = true) succeeds; Decode of its output with pretty =
\* false succeeds and returns the minimal serialization M of J (a text of the
\* value of J without insignificant white space); and Encode(M, compact =
\* true) returns the same string as Encode(J, compact = true).
IdempotentCompaction ==
    /\ (op = "Encode" /\ flag /\ IsJSONText(input)) => err = NoErr
    /\ (/\ op = "Decode" /\ ~flag
        /\ hist # <<>> /\ Prev.op = "Encode" /\ Prev.flag
        /\ IsJSONText(Prev.input))
       => /\ err = NoErr
          /\ StripSpace(result) = result
          /\ JSONValueEqual(result, Prev.input)
    /\ (/\ op = "Encode" /\ flag
        /\ Len(hist) = 2
        /\ hist[2].op = "Decode" /\ ~hist[2].flag
        /\ hist[1].op = "Encode" /\ hist[1].flag
        /\ IsJSONText(hist[1].input))
       => /\ err = NoErr
          /\ result = hist[1].result

\* C12: quote stripping.  Whenever Encode succeeds, its result neither
\* begins nor ends with a quote of the literal's wrapper: the result does not
\* begin with a quote, and a quote at its end is preceded by the backslash
\* that escapes it.
QuoteStrippingExact ==
    (op = "Encode" /\ err = NoErr /\ result # <<>>) =>
        /\ result[1] # QUOTE
        /\ result[Len(result)] = QUOTE => Escaped(result, Len(result))

\* Encode of the string "a", whose escaped text ends in a quote
QuoteStrippingWitness ==
    /\ op = "Encode"
    /\ err = NoErr
    /\ input = <<QUOTE, 97, QUOTE>>
    /\ result # <<>>
    /\ result[Len(result)] # QUOTE

\* t[i] is a byte of the JSON text t outside its string literals
Structural(t, i) == ~InString(t, i) /\ t[i] # QUOTE

\* the number of brackets and braces open after t[1..i]
Depth(t, i) ==
    Cardinality({j \in 1..i : Structural(t, j) /\ t[j] \in {LBRACKET, LBRACE}})
    - Cardinality({j \in 1..i : Structural(t, j) /\ t[j] \in {RBRACKET, RBRACE}})

\* the number of spaces that follow t[i]
SpaceRun(t, i) ==
    CHOOSE n \in 0..(Len(t) - i) :
        /\ \A k \in 1..n : t[i + k] = SPACE
        /\ i + n + 1 > Len(t) \/ t[i + n + 1] # SPACE

\* The layout of an indented JSON text: a line break after every opening
\* bracket (unless its closing bracket follows at once) and after every
\* comma, a line break before every closing bracket (unless its opening
\* bracket precedes at once), every line indented by two spaces for each
\* bracket open around its first token, one space after every colon, and no
\* other white space outside strings.
PrettyLayout(t) ==
    \A i \in 1..Len(t) :
        Structural(t, i) =>
            /\ t[i] \in {LBRACKET, LBRACE} =>
                  /\ i < Len(t)
                  /\ t[i + 1] = LF \/ t[i + 1] = t[i] + 2
            /\ t[i] = COMMA => (i < Len(t) /\ t[i + 1] = LF)
            /\ t[i] \in {RBRACKET, RBRACE} =>
                  /\ i > 1
                  /\ \/ t[i - 1] = t[i] - 2
                     \/ \E j \in 1..(i - 1) : t[j] = LF /\ j + SpaceRun(t, j) = i - 1
            /\ t[i] = COLON => (i + 1 < Len(t) /\ t[i + 1] = SPACE /\ t[i + 2] # SPACE)
            /\ t[i] = LF =>
                  LET n == SpaceRun(t, i) IN
                  /\ i + n < Len(t)
                  /\ \/ (i > 1 /\ t[i - 1] \in {LBRACKET, LBRACE, COMMA})
                     \/ t[i + n + 1] \in {RBRACKET, RBRACE}
                  /\ n = 2 * (Depth(t, i) -
                              (IF t[i + n + 1] \in {RBRACKET, RBRACE} THEN 1 ELSE 0))
            /\ t[i] = SPACE =>
                  \/ (i > 1 /\ t[i - 1] = COLON)
                  \/ \E j \in 1..(i - 1) : t[j] = LF /\ i <= j + SpaceRun(t, j)
            /\ t[i] \notin {TAB, CR}

\* C13: Decode with pretty = true lays its result out on lines of elements
\* indented by two spaces for each nesting level (the array of three strings
\* gives an opening bracket, three lines that start with two spaces, a
\* closing bracket); with pretty = false the result holds no insignificant
\* white space.
DecodePrettyLayout ==
    (op = "Decode" /\ err = NoErr) =>
        IF flag
        THEN /\ PrettyLayout(result)
             /\ input = EscapedArray =>
                   result = <<91, 10, 32, 32, 34, 111, 110, 101, 34, 44,
                              10, 32, 32, 34, 116, 119, 111, 34, 44,
                              10, 32, 32, 34, 116, 104, 114, 101, 101, 34, 10, 93>>
        ELSE StripSpace(result) = result

\* a pretty result with a line at the second nesting level
DecodePrettyWitness ==
    /\ op = "Decode"
    /\ flag
    /\ err = NoErr
    /\ \E i \in 1..Len(result) : result[i] = LF /\ SpaceRun(result, i) = 4

\* C14: decoder result guarantee.  Whenever Decode succeeds, its result is a
\* well-formed JSON text of the value of the unescaped input, with pretty
\* true or false; so the results of Decode with pretty = true and
\* pretty = false have the same value.
DecodeResultGuarantee ==
    (op = "Decode" /\ err = NoErr) =>
        LET agree(other) ==
                /\ IsJSONText(result)
                /\ JSONValueEqual(result, Requoted(input).str)
                /\ other.err = NoErr
                /\ JSONValueEqual(result, other.result)
        IN  agree(Decode(input, ~flag))

\* Decode of 1e1 with pretty = true, which gives 10
DecodeResultWitness ==
    /\ op = "Decode"
    /\ flag
    /\ err = NoErr
    /\ input = <<49, 101, 49>>
    /\ result = <<49, ZERO>>

\* C20: Encode's unwrap step removes exactly one character from the start
\* and exactly one from the end of the quoted literal of the escape step, for
\* every valid input, also one whose text begins or ends with a quote; the
\* length of the result is the length of the literal minus two.
UnwrapExactlyOne ==
    (op = "Encode" /\ err = NoErr) =>
        LET step2 == IF flag THEN Marshal(Unmarshal(input).val) ELSE input
            literal == <<QUOTE>> \o EscapedForm(step2) \o <<QUOTE>>
        IN  /\ Len(result) = Len(literal) - 2
            /\ result = SubSeq(literal, 2, Len(literal) - 1)

\* C15: calls are independent and deterministic.  The result and the error
\* of a call depend only on its input and its flag: a call that runs
\* interleaved with other calls returns what the same call returns alone,
\* and two calls with the same arguments return the same bytes and error.
CallsIndependent ==
    \A g \in Goroutines :
        calls[g].pc = "done" =>
            /\ LET alone == IF calls[g].op = "Encode"
                            THEN Encode(calls[g].input, calls[g].flag)
                            ELSE Decode(calls[g].input, calls[g].flag)
               IN  calls[g].result = alone.result /\ calls[g].err = alone.err
            /\ \A h \in Goroutines :
                  (/\ calls[h].pc = "done"
                   /\ calls[h].op = calls[g].op
                   /\ calls[h].flag = calls[g].flag
                   /\ calls[h].input = calls[g].input)
                  => (calls[h].result = calls[g].result /\ calls[h].err = calls[g].err)

\* two calls of Decode on different inputs that both returned a result
CallsIndependentWitness ==
    \E g, h \in Goroutines :
        /\ calls[g].pc = "done" /\ calls[h].pc = "done"
        /\ calls[g].op = "Decode" /\ calls[h].op = "Decode"
        /\ calls[g].err = NoErr /\ calls[h].err = NoErr
        /\ calls[g].input # calls[h].input

NoInputAvailable ==
    /\ ~flags.showHelp /\ ~flags.showVersion
    /\ flags.inputFile = "" /\ flags.inputString = <<>>
    /\ env.stdin.kind = "terminal"

\* C17: on every failure path of main (file read error, standard input read
\* error, no input available, Encode error, Decode error) the process writes
\* a diagnostic to standard error, exits with a status that is not zero and
\* writes nothing to standard output; on success it exits with status zero
\* and writes only the result to standard output.
FailureIsReported ==
    pc = "exited" =>
        /\ (err # NoErr \/ NoInputAvailable) =>
              /\ exitCode # 0
              /\ stderr # <<>>
              /\ stdout = <<>>
        /\ exitCode # 0 => (stderr # <<>> /\ stdout = <<>>)
        /\ (exitCode = 0 /\ invoked # <<>>) =>
              /\ err = NoErr
              /\ stderr = <<>>
              /\ SubSeq(stdout, 1, Len(result)) = result
              /\ Len(stdout) <= Len(result) + 1

\* a run that fails in Encode: a message on standard error, status 1, no output
FailureIsReportedWitness ==
    /\ pc = "exited"
    /\ op = "Encode"
    /\ err = ErrInvalidJSON
    /\ exitCode = 1
    /\ stderr = <<"Error encoding JSON">>
    /\ stdout = <<>>

\* C18: a run of main that reaches the package calls exactly one of Encode
\* and Decode, exactly once: Decode(input, pretty) when --decode is set and
\* Encode(input, compact) otherwise; --compact changes nothing in a decode
\* run and --pretty nothing in an encode run, and neither is an error.
ExactlyOneCall ==
    /\ Len(invoked) <= 1
    /\ pc = "called" => invoked # <<>>
    /\ invoked # <<>> =>
          LET only == invoked[1]
              alone == IF flags.decode THEN Decode(input, flags.pretty)
                       ELSE Encode(input, flags.compact)
          IN  /\ only.op = (IF flags.decode THEN "Decode" ELSE "Encode")
              /\ only.flag = (IF flags.decode THEN flags.pretty ELSE flags.compact)
              /\ only.input = input
              /\ result = alone.result
              /\ err = alone.err

\* a decode run with --compact that succeeded
ExactlyOneCallWitness ==
    /\ pc = "exited"
    /\ flags.decode /\ flags.compact
    /\ invoked = <<[op |-> "Decode", flag |-> flags.pretty, input |-> input]>>
    /\ exitCode = 0
    /\ stdout # <<>>

\* C19: on success main writes to standard output exactly the result of the
\* call followed by one line feed, or exactly the result when --raw is set.
OutputIsResult ==
    (pc = "exited" /\ exitCode = 0 /\ invoked # <<>>) =>
        stdout = result \o (IF flags.rawOutput THEN <<>> ELSE <<LF>>)

\* a run with --raw that wrote its result and nothing else
OutputIsResultWitness ==
    /\ pc = "exited"
    /\ exitCode = 0
    /\ flags.rawOutput
    /\ result # <<>>
    /\ stdout = result

\* the statements of a call in the order of the code, and how many of them a
\* call has executed
StepOrder(o) ==
    IF o = "Encode" THEN <<"start", "validated", "selected", "escaped", "done">>
    ELSE <<"start", "quoted", "unquoted", "validated", "done">>
StepsDone(c) == (CHOOSE k \in 1..5 : StepOrder(c.op)[k] = c.pc) - 1

\* the error of the step a call is about to execute, NoErr when the step
\* succeeds
StepError(c) ==
    IF c.op = "Encode" /\ c.pc = "start"
    THEN (IF Unmarshal(c.input).err # "nil" THEN ErrInvalidJSON ELSE NoErr)
    ELSE IF c.op = "Decode" /\ c.pc = "quoted"
    THEN (IF UnmarshalString(<<QUOTE>> \o c.input \o <<QUOTE>>).err # "nil"
          THEN ErrInvalidJSONString ELSE NoErr)
    ELSE IF c.op = "Decode" /\ c.pc = "unquoted"
    THEN (IF Unmarshal(c.str).err # "nil" THEN ErrDecodedNotJSON ELSE NoErr)
    ELSE IF c.op = "Encode" /\ c.pc = "validated"
    THEN (IF c.flag /\ MarshalErr(c.v) # "nil" THEN ErrCompacting ELSE NoErr)
    ELSE IF c.op = "Encode" /\ c.pc = "selected"
    THEN (IF MarshalErr(Str(c.str)) # "nil" THEN ErrEncoding ELSE NoErr)
    ELSE IF c.op = "Decode" /\ c.pc = "validated"
    THEN (IF MarshalErr(c.v) = "nil" THEN NoErr
          ELSE IF c.flag THEN ErrFormatting ELSE ErrMarshaling)
    ELSE NoErr

\* C21: both operations are four-step pipelines executed in order with no
\* retry.  A call that has returned executes nothing more; a step that fails
\* ends the call at once with an empty result and the error of that step;
\* a step that succeeds is followed by the next step, so a call that returns
\* without error has executed each of its four steps once.
PipelineInOrder ==
    [][\A g \in Goroutines :
          calls'[g] # calls[g] =>
              /\ calls[g].pc # "done"
              /\ calls'[g].op = calls[g].op
              /\ calls'[g].flag = calls[g].flag
              /\ calls'[g].input = calls[g].input
              /\ IF StepError(calls[g]) # NoErr
                 THEN /\ calls'[g].pc = "done"
                      /\ calls'[g].result = <<>>
                      /\ calls'[g].err = StepError(calls[g])
                 ELSE /\ StepsDone(calls'[g]) = StepsDone(calls[g]) + 1
                      /\ calls'[g].err = NoErr]_vars

\* a call of Decode that ended at its third step, next to a call that
\* returned a result after its fourth
PipelineWitness ==
    \E g, h \in Goroutines :
        /\ calls[g].pc = "done" /\ calls[g].op = "Decode"
        /\ calls[g].err = ErrDecodedNotJSON /\ calls[g].result = <<>>
        /\ calls[h].pc = "done" /\ calls[h].err = NoErr /\ calls[h].result # <<>>

\* C22: the serialization errors are unreachable.  A call of Encode fails
\* only when its input fails the validation, so for an input that passes it
\* neither the compaction nor the escape fails; a call of Decode fails only
\* when its input fails the unescape or the re-validation, so after them the
\* final serialization does not fail; a call that fails reports "invalid
\* JSON", "invalid JSON string" or "decoded string is not valid JSON".
SerializationNeverFails ==
    /\ (op = "Encode" /\ err # NoErr) =>
          (err = ErrInvalidJSON /\ Unmarshal(input).err # "nil")
    /\ (op = "Decode" /\ err # NoErr) =>
          /\ err \in {ErrInvalidJSONString, ErrDecodedNotJSON}
          /\ LET failed(jsonString) ==
                    jsonString.err # "nil" \/ Unmarshal(jsonString.str).err # "nil"
             IN  failed(Requoted(input))

\* the compacting Encode of 1e1 returned 10: the validation passed, the
\* compaction and the escape were executed
SerializationWitness ==
    /\ op = "Encode" /\ flag
    /\ input = <<49, 101, 49>>
    /\ err = NoErr
    /\ result = <<49, 48>>

\* a text without a double quote, a backslash or a control character
PlainText(t) == \A k \in 1..Len(t) : t[k] >= SPACE /\ t[k] \notin {QUOTE, BACKSLASH}

\* C23: for every valid JSON input whose text holds no double quote, no
\* backslash and no control character, Encode with compact = false returns
\* the input text unchanged.
PlainInputUnchanged ==
    (op = "Encode" /\ ~flag /\ PlainText(input) /\ IsJSONText(input))
    => (err = NoErr /\ result = input)

\* C24: every string a successful Encode returns is safe to embed between
\* double quotes, for both values of compact: it holds no raw control
\* character, every double quote in it is preceded by an odd-length run of
\* backslashes, and so the quote placed after it closes the literal.
SafeToEmbed ==
    (op = "Encode" /\ err = NoErr) =>
        /\ \A i \in 1..Len(result) : ~RawControlAt(result, i)
        /\ \A i \in 1..Len(result) : result[i] = QUOTE => Escaped(result, i)
        /\ LET embedded == <<QUOTE>> \o result \o <<QUOTE>>
           IN  UnescapedQuoteAt(embedded, Len(embedded))

\* C25: whether a call fails, and with which error, does not depend on the
\* formatting flag: two calls of the same operation on the same input, one
\* with the flag set and one without, both fail with the same error or both
\* succeed.
FailureIgnoresFlag ==
    \A g, h \in Goroutines :
        (/\ calls[g].pc = "done" /\ calls[h].pc = "done"
         /\ calls[g].op = calls[h].op
         /\ calls[g].input = calls[h].input
         /\ calls[g].flag /\ ~calls[h].flag)
        => calls[g].err = calls[h].err

\* Decode of the text x with and without pretty: both calls passed the
\* unescape and failed the re-validation
FailureIgnoresFlagWitness ==
    \E g, h \in Goroutines :
        /\ calls[g].pc = "done" /\ calls[h].pc = "done"
        /\ calls[g].op = "Decode" /\ calls[h].op = "Decode"
        /\ calls[g].input = <<120>> /\ calls[h].input = <<120>>
        /\ calls[g].flag /\ ~calls[h].flag
        /\ calls[g].err = ErrDecodedNotJSON /\ calls[h].err = ErrDecodedNotJSON

\* the command line without the options that were given an empty value
WithoutEmptyOptions ==
    [argv EXCEPT !.file = IF argv.file = Given("") THEN NoFile ELSE @,
                 !.json = IF argv.json = Given(<<>>) THEN Absent ELSE @]

\* the run is past the selection of its input
Selected == pc \in {"read", "called", "exited"} /\ ~flags.showHelp /\ ~flags.showVersion

\* C26: an empty --json string and an empty --file path are treated as if
\* the option were absent, and the selection falls through to the next
\* source.  With --file empty or absent and a non-empty --json string the
\* string is the input; with both empty or absent a pipe on the standard
\* input is read and its data is what the package is called with, and
\* without a pipe the run ends with "No input provided", a non-zero status
\* and no call of the package.  An existing empty file is passed to the
\* package, whose call fails.
EmptyOptionIsAbsent ==
    /\ flags = Parse(WithoutEmptyOptions)
    /\ (Selected /\ argv.file \in {Given(""), NoFile} /\ argv.json.value # <<>>)
       => (input = argv.json.value /\ ~env.stdin.read)
    /\ (Selected /\ argv.file \in {Given(""), NoFile} /\ argv.json \in {Given(<<>>), Absent})
       => CASE env.stdin.kind = "pipe" ->
                  /\ env.stdin.read
                  /\ input = env.stdin.data
                  /\ \A k \in 1..Len(invoked) : invoked[k].input = env.stdin.data
                  /\ (pc = "exited") => Len(invoked) = 1
            [] env.stdin.kind = "terminal" ->
                  /\ pc = "exited"
                  /\ exitCode # 0
                  /\ stderr[1] = "No input provided. Use --file, --json or pipe data to stdin."
                  /\ invoked = <<>>
                  /\ stdout = <<>>
            [] OTHER -> invoked = <<>>
    /\ (pc = "exited" /\ Selected /\ argv.file = Given("in.json") /\ env.file = <<>>)
       => /\ Len(invoked) = 1
          /\ invoked[1].input = <<>>
          /\ err \in {ErrInvalidJSON, ErrDecodedNotJSON}
          /\ exitCode # 0
          /\ stdout = <<>>

\* --json '' with {"a":1} piped to the standard input: the run encoded the
\* piped text and wrote the result
EmptyOptionWitness ==
    /\ pc = "exited"
    /\ argv.json = Given(<<>>)
    /\ argv.file = Given("")
    /\ ~flags.decode
    /\ env.stdin.kind = "pipe"
    /\ env.stdin.data = <<123, 34, 97, 34, 58, 49, 125>>
    /\ invoked = <<[op |-> "Encode", flag |-> flags.compact, input |-> env.stdin.data]>>
    /\ exitCode = 0
    /\ stdout # <<>>

====
